---- MODULE Spec2Model ----
(***************************************************************************)
(* Model of lib/r6LogsProcessor.py: the two log aggregators                *)
(* (PlayerLogProcessor, OperatorLogProcessor), their reports, the          *)
(* process_logs loop and the resolution of the last N days' log files.     *)
(*                                                                         *)
(* Text is modelled at the level of lexical tokens: a line is a sequence   *)
(* of tokens, a token being "," (the separator), a whitespace character    *)
(* (" " or "\n"), a sign, a decimal digit, or a word free of separators    *)
(* and whitespace.  Identifiers and report text are strings built with \o. *)
(***************************************************************************)
EXTENDS Integers, Sequences, FiniteSets, TLC

VARIABLES
    config,         \* the configuration dictionary handed to the processors
    disk,           \* LOGS_FOLDER: day offset -> [exists, lines] of that day's log file
    processors,     \* the list handed to process_logs (kinds, in order)
    data,           \* kind -> self.data of that processor instance
    pc,             \* position of process_logs / of the client
    log_files,      \* process_logs' local log_files (day offsets, in order)
    p,              \* index into processors of the outer loop
    f,              \* index into log_files of the file loop
    idx,            \* enumerate(file) index of the next line
    stdout,         \* everything printed so far
    calls,          \* history: every process_log_line call made so far
    reports,        \* REPORT_FOLDER: kind -> text of the report file or NoReport
    last_reported   \* history: kind -> whether generate_report was invoked, and the
                    \* self.data its latest invocation saw

vars == <<config, disk, processors, data, pc, log_files, p, f, idx, stdout,
          calls, reports, last_reported>>

(***************************************************************************)
(* Bounds of the model.                                                    *)
(***************************************************************************)
N_DAYS == 2
MaxFolds == 3
MaxTopN == 2

\* a day without a log file, and a day's log file
NoFile == [exists |-> FALSE, lines |-> <<>>]
File(lines) == [exists |-> TRUE, lines |-> lines]
NoReport == "NoReport"
\* generate_report has not been invoked on the instance
NotReported == [invoked |-> FALSE, data |-> [keys |-> <<>>, val |-> <<>>]]
Kinds == {"operator", "player"}

(***************************************************************************)
(* Strings and tokens.                                                     *)
(***************************************************************************)
Whitespace == {" ", "\n"}
DigitChars == <<"0", "1", "2", "3", "4", "5", "6", "7", "8", "9">>
Digits == {DigitChars[i] : i \in 1..10}
DigitVal(c) == (CHOOSE i \in 1..10 : DigitChars[i] = c) - 1

\* str.__lt__ on the identifiers that occur: their ascending lexicographic order
IdOrder == <<"match1", "match10", "match2", "match3",
             "operator1", "operator2", "player1", "player2">>
StrLess(a, b) ==
    \E i, j \in 1..Len(IdOrder) : IdOrder[i] = a /\ IdOrder[j] = b /\ i < j

Min(a, b) == IF a < b THEN a ELSE b

RECURSIVE lstrip(_)
lstrip(s) == IF s # <<>> /\ Head(s) \in Whitespace THEN lstrip(Tail(s)) ELSE s

RECURSIVE rstrip(_)
rstrip(s) ==
    IF s # <<>> /\ s[Len(s)] \in Whitespace THEN rstrip(SubSeq(s, 1, Len(s) - 1)) ELSE s

\* str.strip()
strip(s) == rstrip(lstrip(s))

\* str.split(','): always at least one field, empty fields kept
RECURSIVE split(_)
split(s) ==
    IF \A i \in 1..Len(s) : s[i] # ","
    THEN <<s>>
    ELSE LET i == CHOOSE i \in 1..Len(s) : s[i] = "," /\ \A j \in 1..(i - 1) : s[j] # ","
         IN  <<SubSeq(s, 1, i - 1)>> \o split(SubSeq(s, i + 1, Len(s)))

\* the Python string a token sequence stands for
RECURSIVE str(_)
str(s) == IF s = <<>> THEN "" ELSE Head(s) \o str(Tail(s))

\* str.join
RECURSIVE join(_, _)
join(sep, ss) ==
    IF ss = <<>> THEN ""
    ELSE IF Len(ss) = 1 THEN ss[1]
    ELSE ss[1] \o sep \o join(sep, Tail(ss))

\* int(s): surrounding whitespace is ignored, then an optional sign and at
\* least one digit; anything else raises ValueError (the tokens modelled have
\* no underscore and no digit outside 0-9)
int_digits(s) ==
    LET t == strip(s)
    IN  IF t # <<>> /\ Head(t) \in {"+", "-"} THEN Tail(t) ELSE t

int_raises(s) ==
    LET d == int_digits(s)
    IN  d = <<>> \/ \E i \in 1..Len(d) : d[i] \notin Digits

RECURSIVE digits_value(_)
digits_value(d) ==
    IF d = <<>> THEN 0 ELSE 10 * digits_value(SubSeq(d, 1, Len(d) - 1)) + DigitVal(d[Len(d)])

int(s) ==
    LET t == strip(s)
        v == digits_value(int_digits(s))
    IN  IF t # <<>> /\ Head(t) = "-" THEN 0 - v ELSE v

(***************************************************************************)
(* Dictionaries: Python dicts keep insertion order, so a dict is its keys  *)
(* in insertion order and the key -> value map.                            *)
(***************************************************************************)
EmptyDict == [keys |-> <<>>, val |-> <<>>]

\* faulty variant: the default replaces the value of a key that is present
Touch_always_default(d, k, default) ==
    IF k \in DOMAIN d.val THEN [d EXCEPT !.val[k] = default]
    ELSE [keys |-> Append(d.keys, k), val |-> d.val @@ (k :> default)]

\* defaultdict.__getitem__: a missing key is inserted with the default
Touch(d, k, default) ==
    IF k \in DOMAIN d.val THEN d
    ELSE [keys |-> Append(d.keys, k), val |-> d.val @@ (k :> default)]

(***************************************************************************)
(* PlayerLogProcessor                                                      *)
(***************************************************************************)
\* faulty variant: "=" where the code has "+="
PlayerLogProcessor_process_log_line_assign(self_data, line) ==
    LET fields == split(strip(line))
    IN  IF Len(fields) # 4
        THEN [data |-> self_data, raised |-> TRUE]
        ELSE LET player_id == str(fields[1])
                 match_id == str(fields[2])
                 nb_kills == fields[4]
                 d1 == Touch(self_data, player_id, EmptyDict)
                 d2 == [d1 EXCEPT !.val[player_id] = Touch(@, match_id, 0)]
             IN  IF int_raises(nb_kills)
                 THEN [data |-> d2, raised |-> TRUE]
                 ELSE [data |-> [d2 EXCEPT !.val[player_id].val[match_id] = int(nb_kills)],
                       raised |-> FALSE]

\* self.data[player_id][match_id] += int(nb_kills): the unpacking raises on a
\* field count other than four before self.data is read; the augmented
\* assignment reads self.data[player_id][match_id] (both defaultdicts insert
\* the missing key) before int(nb_kills) is evaluated.
PlayerLogProcessor_process_log_line(self_data, line) ==
    LET fields == split(strip(line))
    IN  IF Len(fields) # 4
        THEN [data |-> self_data, raised |-> TRUE]
        ELSE LET player_id == str(fields[1])
                 match_id == str(fields[2])
                 nb_kills == fields[4]
                 d1 == Touch(self_data, player_id, EmptyDict)
                 d2 == [d1 EXCEPT !.val[player_id] = Touch(@, match_id, 0)]
             IN  IF int_raises(nb_kills)
                 THEN [data |-> d2, raised |-> TRUE]
                 ELSE [data |-> [d2 EXCEPT !.val[player_id].val[match_id] = @ + int(nb_kills)],
                       raised |-> FALSE]

(***************************************************************************)
(* OperatorLogProcessor                                                    *)
(***************************************************************************)
NewOperatorStats == [kills |-> 0, matches |-> 0]

\* faulty variant: 'matches' is incremented before 'kills'
OperatorLogProcessor_process_log_line_count_first(self_data, line) ==
    LET fields == split(strip(line))
    IN  IF Len(fields) # 4
        THEN [data |-> self_data, raised |-> TRUE]
        ELSE LET match_id == str(fields[2])
                 operator_id == str(fields[3])
                 nb_kills == fields[4]
                 d1 == Touch(self_data, operator_id, EmptyDict)
                 d2 == [d1 EXCEPT !.val[operator_id] = Touch(@, match_id, NewOperatorStats)]
                 d3 == [d2 EXCEPT !.val[operator_id].val[match_id].matches = @ + 1]
             IN  IF int_raises(nb_kills)
                 THEN [data |-> d3, raised |-> TRUE]
                 ELSE [data |-> [d3 EXCEPT
                                    !.val[operator_id].val[match_id].kills = @ + int(nb_kills)],
                       raised |-> FALSE]

\* self.data[operator_id][match_id]['kills'] += int(nb_kills), then
\* self.data[operator_id][match_id]['matches'] += 1
OperatorLogProcessor_process_log_line(self_data, line) ==
    LET fields == split(strip(line))
    IN  IF Len(fields) # 4
        THEN [data |-> self_data, raised |-> TRUE]
        ELSE LET match_id == str(fields[2])
                 operator_id == str(fields[3])
                 nb_kills == fields[4]
                 d1 == Touch(self_data, operator_id, EmptyDict)
                 d2 == [d1 EXCEPT !.val[operator_id] = Touch(@, match_id, NewOperatorStats)]
             IN  IF int_raises(nb_kills)
                 THEN [data |-> d2, raised |-> TRUE]
                 ELSE [data |-> [d2 EXCEPT
                                    !.val[operator_id].val[match_id].kills = @ + int(nb_kills),
                                    !.val[operator_id].val[match_id].matches = @ + 1],
                       raised |-> FALSE]

process_log_line(kind, self_data, line) ==
    IF kind = "player"
    THEN PlayerLogProcessor_process_log_line(self_data, line)
    ELSE OperatorLogProcessor_process_log_line(self_data, line)

(***************************************************************************)
(* Reports.  An item of a key's matches is [match, kills, matches]; a      *)
(* player's item has matches = 1, so that both sort keys read              *)
(* (-kills / matches, match).                                              *)
(***************************************************************************)
\* faulty variant: the sort key is the match_id alone
KeyLess_by_match_only(a, b) == StrLess(a.match, b.match)

\* the sort key of a comes strictly before the sort key of b
KeyLess(a, b) ==
    \/ a.kills * b.matches > b.kills * a.matches
    \/ /\ a.kills * b.matches = b.kills * a.matches
       /\ StrLess(a.match, b.match)

\* sorted(): stable, ascending in the sort key
RECURSIVE sorted(_)
sorted(items) ==
    IF items = <<>> THEN <<>>
    ELSE LET s == sorted(SubSeq(items, 1, Len(items) - 1))
             e == items[Len(items)]
             k == Cardinality({i \in 1..Len(s) : ~KeyLess(e, s[i])})
         IN  SubSeq(s, 1, k) \o <<e>> \o SubSeq(s, k + 1, Len(s))

\* [:top_n]
slice(s, top_n) == SubSeq(s, 1, Min(top_n, Len(s)))

two_digits(n) == IF n < 10 THEN "0" \o ToString(n) ELSE ToString(n)

\* f"{kills / matches:.2f}": the quotient rounded to the nearest hundredth.
\* An exact half needs matches to be a multiple of 8, more than the folds
\* modelled; the rule given for it is that of a quotient that is a binary
\* fraction (matches a power of two): the even hundredth.
format_2f(kills, matches) ==
    LET n == 100 * (IF kills < 0 THEN 0 - kills ELSE kills)
        q == n \div matches
        r == n % matches
        h == IF 2 * r > matches \/ (2 * r = matches /\ q % 2 = 1) THEN q + 1 ELSE q
    IN  (IF kills < 0 THEN "-" ELSE "") \o ToString(h \div 100) \o "." \o two_digits(h % 100)

player_items(match_kills) ==
    [i \in 1..Len(match_kills.keys) |->
        [match |-> match_kills.keys[i],
         kills |-> match_kills.val[match_kills.keys[i]],
         matches |-> 1]]

operator_items(match_data) ==
    [i \in 1..Len(match_data.keys) |->
        [match |-> match_data.keys[i],
         kills |-> match_data.val[match_data.keys[i]].kills,
         matches |-> match_data.val[match_data.keys[i]].matches]]

PlayerLogProcessor_generate_report(self_data, cfg) ==
    LET ranked == [i \in 1..Len(self_data.keys) |->
                      [key |-> self_data.keys[i],
                       sorted_matches |->
                           slice(sorted(player_items(self_data.val[self_data.keys[i]])),
                                 cfg.TOP_N_PLAYERS)]]
        report_string(r) ==
            r.key \o "|" \o
            join(",", [j \in 1..Len(r.sorted_matches) |->
                          r.sorted_matches[j].match \o ":" \o
                          ToString(r.sorted_matches[j].kills)])
    IN  [raised |-> FALSE,
         ranked |-> ranked,
         text |-> join("\n", [i \in 1..Len(ranked) |-> report_string(ranked[i])]) \o "\n"]

\* -x[1]['kills'] / x[1]['matches'] raises ZeroDivisionError when matches is 0;
\* nothing has been written by then
OperatorLogProcessor_generate_report(self_data, cfg) ==
    LET ranked == [i \in 1..Len(self_data.keys) |->
                      [key |-> self_data.keys[i],
                       sorted_matches |->
                           slice(sorted(operator_items(self_data.val[self_data.keys[i]])),
                                 cfg.TOP_N_OPERATOR_KILLS)]]
        match_report(r) ==
            join(",", [j \in 1..Len(r.sorted_matches) |->
                          r.sorted_matches[j].match \o ":" \o
                          format_2f(r.sorted_matches[j].kills, r.sorted_matches[j].matches)])
        zero_division ==
            \E o \in DOMAIN self_data.val : \E m \in DOMAIN self_data.val[o].val :
                self_data.val[o].val[m].matches = 0
    IN  IF zero_division
        THEN [raised |-> TRUE, ranked |-> <<>>, text |-> ""]
        ELSE [raised |-> FALSE,
              ranked |-> ranked,
              text |-> join("\n", [i \in 1..Len(ranked) |->
                                      ranked[i].key \o "|" \o match_report(ranked[i])])]

generate_report(kind, self_data, cfg) ==
    IF kind = "player"
    THEN PlayerLogProcessor_generate_report(self_data, cfg)
    ELSE OperatorLogProcessor_generate_report(self_data, cfg)

(***************************************************************************)
(* Inputs: log lines and log files.                                        *)
(***************************************************************************)
Line(player_id, match_id, operator_id, nb_kills) ==
    <<player_id, ",", match_id, ",", operator_id, ",">> \o nb_kills

\* a file's lines as iteration yields them: each one but the last keeps its "\n"
Lines(texts) ==
    [i \in 1..Len(texts) |-> IF i < Len(texts) THEN Append(texts[i], "\n") ELSE texts[i]]

\* mock_log_data of the tests, written with '\n'.join
MockLog ==
    Lines(<<Line("player1", "match1", "operator1", <<"5">>),
            Line("player2", "match1", "operator1", <<"3">>),
            Line("player1", "match2", "operator2", <<"2">>),
            Line("player2", "match2", "operator1", <<"4">>),
            Line("player1", "match3", "operator2", <<"1">>)>>)

\* the third line has a kill count that is no number; the file ends with a newline
BadKillsLog ==
    Lines(<<Line("player1", "match1", "operator1", <<"4">>),
            Line("player2", "match2", "operator2", <<"1">>),
            Line("player1", "match3", "operator1", <<"x">>),
            Line("player2", "match2", "operator2", <<"1", "0", "\n">>)>>)

\* three fields, five fields, a blank line, then a well-formed line
BadFieldsLog ==
    Lines(<<<<"player1", ",", "match1", ",", "operator1">>,
            Line("player2", "match2", "operator2", <<"1", ",", "1">>),
            <<>>,
            Line("player2", "match10", "operator2", <<"6">>)>>)

\* a negative kill count after a positive one for the same keys
NegativeLog ==
    Lines(<<Line("player1", "match1", "operator1", <<"2">>),
            Line("player1", "match1", "operator1", <<"-", "3">>)>>)

EmptyLog == <<>>

FileSet == {MockLog, BadKillsLog, BadFieldsLog, NegativeLog, EmptyLog}

\* the lines a client hands to process_log_line directly
LineSet ==
    {Line("player1", "match1", "operator1", <<"5", "\n">>),
     Line("player1", "match2", "operator1", <<"5", "\n">>),
     Line("player2", "match1", "operator1", <<" ", "3", "\n">>),
     Line("player1", "match1", "operator2", <<"-", "3", "\n">>),
     Line("player1", "match3", "operator1", <<"x", "\n">>),
     Line("player1", "match3", "operator1", <<"2">>),
     <<"player1", ",", "match1", ",", "operator1", "\n">>}

Days == 0..(N_DAYS - 1)
ProcessorLists == {<<"operator", "player">>, <<"player">>, <<"operator">>}

\* the configuration of the tests' scenarios
TestConfig == [N_DAYS |-> N_DAYS, TOP_N_PLAYERS |-> 3, TOP_N_OPERATOR_KILLS |-> 2]

(***************************************************************************)
(* get_last_n_days_log_files: a log file is named by its day offset from   *)
(* today (0 is today's file).                                              *)
(***************************************************************************)
\* faulty variant: a missing day raises
get_last_n_days_log_files_strict(cfg, dsk) ==
    LET days == [i \in 1..cfg.N_DAYS |-> i - 1]
        found == SelectSeq(days, LAMBDA d : dsk[d].exists)
        missing == SelectSeq(days, LAMBDA d : ~dsk[d].exists)
    IN  [raised |-> missing # <<>>,
         log_files |-> found,
         printed |-> [i \in 1..Len(missing) |->
                         [type |-> "not_found", file |-> missing[i], idx |-> -1]]]

get_last_n_days_log_files(cfg, dsk) ==
    LET days == [i \in 1..cfg.N_DAYS |-> i - 1]
        found == SelectSeq(days, LAMBDA d : dsk[d].exists)
        missing == SelectSeq(days, LAMBDA d : ~dsk[d].exists)
    IN  [raised |-> found = <<>>,
         log_files |-> found,
         printed |-> [i \in 1..Len(missing) |->
                         [type |-> "not_found", file |-> missing[i], idx |-> -1]]]

\* faulty variant: the index counts the lines from one
ErrorEvent_one_based(log_file, i) == [type |-> "error", file |-> log_file, idx |-> i + 1]

\* print(f"Error processing log line ({idx}) in file {log_file}: {e}")
ErrorEvent(log_file, i) == [type |-> "error", file |-> log_file, idx |-> i]

CallRecord(kind, log_file, i, line, raised) ==
    [proc |-> kind, file |-> log_file, idx |-> i, line |-> line, raised |-> raised]

(***************************************************************************)
(* process_logs                                                            *)
(***************************************************************************)
Init ==
    /\ config = TestConfig
    /\ disk \in [Days -> {File(l) : l \in FileSet} \cup {NoFile}]
    /\ processors \in ProcessorLists
    /\ data = [k \in Kinds |-> EmptyDict]
    /\ pc = "start"
    /\ log_files = <<>>
    /\ p = 1
    /\ f = 1
    /\ idx = 0
    /\ stdout = <<>>
    /\ calls = <<>>
    /\ reports = [k \in Kinds |-> NoReport]
    /\ last_reported = [k \in Kinds |-> NotReported]

\* log_files = get_last_n_days_log_files(processors[0].config)
Resolve ==
    /\ pc = "start"
    /\ LET r == get_last_n_days_log_files(config, disk)
       IN  /\ stdout' = stdout \o r.printed
           /\ log_files' = r.log_files
           /\ pc' = IF r.raised THEN "failed" ELSE "lines"
    /\ UNCHANGED <<config, disk, processors, data, p, f, idx, calls, reports, last_reported>>

\* one iteration of "for idx, line in enumerate(file)"
ProcessLine ==
    /\ pc = "lines"
    /\ f <= Len(log_files)
    /\ idx < Len(disk[log_files[f]].lines)
    /\ LET kind == processors[p]
           line == disk[log_files[f]].lines[idx + 1]
           r == process_log_line(kind, data[kind], line)
       IN  /\ data' = [data EXCEPT ![kind] = r.data]
           /\ stdout' = IF r.raised THEN Append(stdout, ErrorEvent(log_files[f], idx))
                        ELSE stdout
           /\ calls' = Append(calls, CallRecord(kind, log_files[f], idx, line, r.raised))
    /\ idx' = idx + 1
    /\ UNCHANGED <<config, disk, processors, pc, log_files, p, f, reports, last_reported>>

\* the file is exhausted: the next log_file
NextFile ==
    /\ pc = "lines"
    /\ f <= Len(log_files)
    /\ idx = Len(disk[log_files[f]].lines)
    /\ f' = f + 1
    /\ idx' = 0
    /\ UNCHANGED <<config, disk, processors, data, pc, log_files, p, stdout, calls,
                   reports, last_reported>>

\* processor.generate_report(today), then the next processor; an exception
\* of generate_report leaves process_logs
GenerateReport ==
    /\ pc = "lines"
    /\ f > Len(log_files)
    /\ LET kind == processors[p]
           r == generate_report(kind, data[kind], config)
       IN  /\ last_reported' = [last_reported EXCEPT
                                ![kind] = [invoked |-> TRUE, data |-> data[kind]]]
           /\ reports' = IF r.raised THEN reports ELSE [reports EXCEPT ![kind] = r.text]
           /\ pc' = IF r.raised THEN "crashed"
                    ELSE IF p = Len(processors) THEN "done" ELSE "lines"
           /\ p' = IF r.raised \/ p = Len(processors) THEN p ELSE p + 1
           /\ f' = IF r.raised \/ p = Len(processors) THEN f ELSE 1
    /\ idx' = 0
    /\ UNCHANGED <<config, disk, processors, data, log_files, stdout, calls>>

Next == Resolve \/ ProcessLine \/ NextFile \/ GenerateReport

Spec == Init /\ [][Next]_vars

(***************************************************************************)
(* A client of one processor instance: it calls process_log_line and       *)
(* generate_report in any order.                                           *)
(***************************************************************************)
InitClient ==
    /\ config \in {[N_DAYS |-> N_DAYS, TOP_N_PLAYERS |-> n, TOP_N_OPERATOR_KILLS |-> n] :
                      n \in 1..MaxTopN}
    /\ disk = [d \in Days |-> NoFile]
    /\ processors \in {<<k>> : k \in Kinds}
    /\ data = [k \in Kinds |-> EmptyDict]
    /\ pc = "client"
    /\ log_files = <<>>
    /\ p = 1
    /\ f = 1
    /\ idx = 0
    /\ stdout = <<>>
    /\ calls = <<>>
    /\ reports = [k \in Kinds |-> NoReport]
    /\ last_reported = [k \in Kinds |-> NotReported]

CallProcessLogLine ==
    /\ pc = "client"
    /\ Len(calls) < MaxFolds
    /\ \E line \in LineSet :
          LET kind == processors[p]
              r == process_log_line(kind, data[kind], line)
          IN  /\ data' = [data EXCEPT ![kind] = r.data]
              /\ calls' = Append(calls, CallRecord(kind, -1, Len(calls), line, r.raised))
    /\ UNCHANGED <<config, disk, processors, pc, log_files, p, f, idx, stdout, reports,
                   last_reported>>

CallGenerateReport ==
    /\ pc = "client"
    /\ LET kind == processors[p]
           r == generate_report(kind, data[kind], config)
       IN  /\ last_reported' = [last_reported EXCEPT
                                ![kind] = [invoked |-> TRUE, data |-> data[kind]]]
           /\ reports' = IF r.raised THEN reports ELSE [reports EXCEPT ![kind] = r.text]
    /\ UNCHANGED <<config, disk, processors, data, pc, log_files, p, f, idx, stdout, calls>>

NextClient == CallProcessLogLine \/ CallGenerateReport

SpecClient == InitClient /\ [][NextClient]_vars

(***************************************************************************)
(* A client that only folds lines into one processor instance.             *)
(***************************************************************************)
InitFold ==
    /\ config = TestConfig
    /\ disk = [d \in Days |-> NoFile]
    /\ processors \in {<<k>> : k \in Kinds}
    /\ data = [k \in Kinds |-> EmptyDict]
    /\ pc = "client"
    /\ log_files = <<>>
    /\ p = 1
    /\ f = 1
    /\ idx = 0
    /\ stdout = <<>>
    /\ calls = <<>>
    /\ reports = [k \in Kinds |-> NoReport]
    /\ last_reported = [k \in Kinds |-> NotReported]

NextFold == CallProcessLogLine

SpecFold == InitFold /\ [][NextFold]_vars

(***************************************************************************)
(* Vocabulary of the properties.                                           *)
(***************************************************************************)
\* the line has a field count other than four or a kill count that is no integer
Malformed(line) ==
    LET fields == split(strip(line))
    IN  Len(fields) # 4 \/ int_raises(fields[4])

\* the positions (file, zero-based index, line) of the given files, in reading order
RECURSIVE Positions(_)
Positions(files) ==
    IF files = <<>> THEN <<>>
    ELSE Positions(SubSeq(files, 1, Len(files) - 1)) \o
         [i \in 1..Len(disk[files[Len(files)]].lines) |->
             [file |-> files[Len(files)], idx |-> i - 1,
              line |-> disk[files[Len(files)]].lines[i]]]

\* the positions the pass in progress has been through
Visited ==
    IF pc # "lines" THEN <<>>
    ELSE Positions(SubSeq(log_files, 1, f - 1)) \o
         (IF f <= Len(log_files)
          THEN SubSeq(Positions(<<log_files[f]>>), 1, idx)
          ELSE <<>>)

\* the pass of the j-th processor is over: generate_report has been called
PassOver(j) == (pc \in {"done", "crashed"} /\ j <= p) \/ (pc = "lines" /\ j < p)
PassesOver == Cardinality({j \in 1..Len(processors) : PassOver(j)})

RECURSIVE Repeat(_, _)
Repeat(s, n) == IF n = 0 THEN <<>> ELSE s \o Repeat(s, n - 1)

ErrorsAt(positions) ==
    LET bad == SelectSeq(positions, LAMBDA x : Malformed(x.line))
    IN  [i \in 1..Len(bad) |-> [type |-> "error", file |-> bad[i].file, idx |-> bad[i].idx]]

CallsOf(kind) ==
    LET mine == SelectSeq(calls, LAMBDA c : c.proc = kind)
    IN  [i \in 1..Len(mine) |->
            [file |-> mine[i].file, idx |-> mine[i].idx, line |-> mine[i].line]]

(***************************************************************************)
(* C2: in a pass of process_logs, every line of every resolved file is     *)
(* offered to process_log_line, in order; the error events printed are     *)
(* exactly one per malformed line, each with the file and the zero-based   *)
(* index of its line; generate_report is invoked on the processor after    *)
(* its last line, and not before.                                          *)
(***************************************************************************)
C2_ErrorEventsAndContinuation ==
    /\ SelectSeq(stdout, LAMBDA e : e.type = "error") =
           Repeat(ErrorsAt(Positions(log_files)), PassesOver) \o ErrorsAt(Visited)
    /\ \A j \in 1..Len(processors) :
          LET kind == processors[j]
          IN  /\ PassOver(j) =>
                    /\ CallsOf(kind) = Positions(log_files)
                    /\ last_reported[kind] = [invoked |-> TRUE, data |-> data[kind]]
              /\ (pc = "lines" /\ j = p) => CallsOf(kind) = Visited
              /\ ~PassOver(j) => ~last_reported[kind].invoked

\* a run over two files is done; a malformed line that was not the last of
\* the first file has been reported
C2_Witness ==
    /\ pc = "done"
    /\ Len(log_files) = 2
    /\ \E e \in {stdout[i] : i \in 1..Len(stdout)} :
          /\ e.type = "error"
          /\ e.file = log_files[1]
          /\ e.idx + 1 < Len(disk[e.file].lines)

(***************************************************************************)
(* C6: the five lines of the tests folded into an empty                    *)
(* PlayerLogProcessor with TOP_N_PLAYERS = 3.                              *)
(***************************************************************************)
PlayerReportOfMockLog ==
    /\ config.TOP_N_PLAYERS = 3
    /\ Len(log_files) = 1
    /\ disk[log_files[1]].lines = MockLog
    /\ reports["player"] # NoReport

\* C6 as stated: the report lists player2's matches as match1:3, match2:4
C6_Original ==
    PlayerReportOfMockLog =>
        reports["player"] = "player1|match1:5,match2:2,match3:1\nplayer2|match1:3,match2:4\n"

\* C6 amended: the report is player1|match1:5,match2:2,match3:1 then
\* player2|match2:4,match1:3 (descending kills), with one trailing newline
C6_PlayerScenario ==
    PlayerReportOfMockLog =>
        reports["player"] = "player1|match1:5,match2:2,match3:1\nplayer2|match2:4,match1:3\n"

C6_Witness == PlayerReportOfMockLog /\ pc = "done"

(***************************************************************************)
(* C8: resolution returns exactly the days whose file exists, each once;   *)
(* with at least one file process_logs does not fail at resolution and     *)
(* every line of every existing file is folded; with no file at all        *)
(* process_logs fails with no process_log_line call made and no report     *)
(* written.                                                                *)
(***************************************************************************)
C8_MissingDays ==
    pc # "start" =>
        IF \E d \in Days : disk[d].exists
        THEN /\ pc # "failed"
             /\ {log_files[i] : i \in 1..Len(log_files)} = {d \in Days : disk[d].exists}
             /\ Len(log_files) = Cardinality({d \in Days : disk[d].exists})
             /\ pc = "done" =>
                   \A k \in {processors[j] : j \in 1..Len(processors)} :
                   \A d \in Days : \A i \in 1..Len(disk[d].lines) :
                       \E n \in 1..Len(calls) :
                           /\ calls[n].proc = k
                           /\ calls[n].file = d
                           /\ calls[n].idx = i - 1
        ELSE /\ pc = "failed"
             /\ calls = <<>>
             /\ \A k \in Kinds : /\ reports[k] = NoReport
                                 /\ ~last_reported[k].invoked
                                 /\ data[k] = EmptyDict

\* a run is done that skipped a missing day and folded the lines of another
C8_Witness ==
    /\ pc = "done"
    /\ \E d \in Days : ~disk[d].exists
    /\ calls # <<>>

(***************************************************************************)
(* Vocabulary of the properties on the stats maps.                         *)
(***************************************************************************)
\* the instance a client drives
Kind == processors[1]

\* a stats map as Python compares dicts: without the insertion order
View(d) == [k \in DOMAIN d.val |-> d.val[k].val]

RECURSIVE FoldAll(_, _, _)
FoldAll(kind, d, lines) ==
    IF lines = <<>> THEN d
    ELSE process_log_line(kind, FoldAll(kind, d, SubSeq(lines, 1, Len(lines) - 1)),
                          lines[Len(lines)]).data

\* the outer key and the match of a four-field line, for the given kind
KeyOf(kind, line) ==
    LET fields == split(strip(line))
    IN  IF kind = "player" THEN str(fields[1]) ELSE str(fields[3])
MatchOf(line) == str(split(strip(line))[2])
KillsOf(line) == int(split(strip(line))[4])

\* the cumulative kills stored for (k, m); an absent pair stands for zero
KillsAt(kind, d, k, m) ==
    IF k \in DOMAIN d.val /\ m \in DOMAIN d.val[k].val
    THEN IF kind = "player" THEN d.val[k].val[m] ELSE d.val[k].val[m].kills
    ELSE 0

\* the (key, match) pairs present in a stats map
Pairs(d) == UNION {{<<k, m>> : m \in DOMAIN d.val[k].val} : k \in DOMAIN d.val}

\* the step appends a process_log_line call
IsCall == Len(calls') = Len(calls) + 1
NewCall == calls'[Len(calls')]

(***************************************************************************)
(* C10: every (operator, match) entry of an OperatorLogProcessor has       *)
(* matches >= 1, and generate_report never fails with a division by zero.  *)
(***************************************************************************)
C10_Original ==
    /\ \A km \in Pairs(data["operator"]) :
          data["operator"].val[km[1]].val[km[2]].matches >= 1
    /\ pc # "crashed"

(***************************************************************************)
(* C1: a pass over a batch with one malformed line writes the report of    *)
(* the same batch without that line, and a failed process_log_line call    *)
(* leaves the stats map as it was.                                         *)
(***************************************************************************)
C1_Original ==
    /\ [](\A j \in 1..Len(processors) :
            LET kind == processors[j]
                good == SelectSeq(Positions(log_files), LAMBDA x : ~Malformed(x.line))
            IN  (PassOver(j) /\ Len(good) + 1 = Len(Positions(log_files))) =>
                    reports[kind] =
                        generate_report(kind,
                                        FoldAll(kind, EmptyDict,
                                                [i \in 1..Len(good) |-> good[i].line]),
                                        config).text)
    /\ [][(IsCall /\ NewCall.raised) => data' = data]_vars

ValidKillCount(field) == ~int_raises(field) /\ int(field) >= 0

Rejected(line) ==
    LET fields == split(strip(line))
    IN  Len(fields) # 4 \/ ~ValidKillCount(fields[4])

AllPairs == Pairs(data[Kind]) \cup Pairs(data'[Kind])

(***************************************************************************)
(* C3: process_log_line fails, folding nothing, on a field count other     *)
(* than four and on a kill count that is no non-negative integer; stored   *)
(* kill counts are never negative and never decrease.                      *)
(***************************************************************************)
C3_Original ==
    /\ [][(IsCall /\ Rejected(NewCall.line)) =>
             /\ NewCall.raised
             /\ \A km \in AllPairs :
                   KillsAt(Kind, data'[Kind], km[1], km[2]) =
                       KillsAt(Kind, data[Kind], km[1], km[2])]_vars
    /\ [](\A km \in Pairs(data[Kind]) : KillsAt(Kind, data[Kind], km[1], km[2]) >= 0)
    /\ [][\A km \in AllPairs :
             KillsAt(Kind, data'[Kind], km[1], km[2]) >=
                 KillsAt(Kind, data[Kind], km[1], km[2])]_vars

Orders(n) == {q \in [1..n -> 1..n] : \A i, j \in 1..n : q[i] = q[j] => i = j}

AllWellFormed == \A i \in 1..Len(calls) : ~Malformed(calls[i].line)

(***************************************************************************)
(* C4: folding the same well-formed lines in any order from an empty       *)
(* aggregator gives the same stats map: the same keys, the same matches    *)
(* under each key and the same values.                                     *)
(***************************************************************************)
C4_FoldOrderIndependent ==
    AllWellFormed =>
        \A q \in Orders(Len(calls)) :
            View(FoldAll(Kind, EmptyDict, [i \in 1..Len(calls) |-> calls[q[i]].line])) =
                View(data[Kind])

\* well-formed lines were folded of which another order inserts the keys in
\* another order, and two of them add up in one entry
C4_Witness ==
    /\ AllWellFormed
    /\ \E q \in Orders(Len(calls)) :
          FoldAll(Kind, EmptyDict, [i \in 1..Len(calls) |-> calls[q[i]].line]) # data[Kind]
    /\ \E i, j \in 1..Len(calls) :
          /\ i < j
          /\ KeyOf(Kind, calls[i].line) = KeyOf(Kind, calls[j].line)
          /\ MatchOf(calls[i].line) = MatchOf(calls[j].line)
          /\ KillsOf(calls[i].line) # KillsOf(calls[j].line)

FoldedFor(o, m) ==
    {i \in 1..Len(calls) :
        /\ ~calls[i].raised
        /\ KeyOf("operator", calls[i].line) = o
        /\ MatchOf(calls[i].line) = m}

RECURSIVE SumKills(_)
SumKills(is) ==
    IF is = {} THEN 0
    ELSE LET i == CHOOSE i \in is : TRUE
         IN  KillsOf(calls[i].line) + SumKills(is \ {i})

(***************************************************************************)
(* C9: for every (operator, match) pair of an OperatorLogProcessor,        *)
(* matches is the number of calls that folded a line for the pair and      *)
(* kills is the sum of the kill counts of those lines; a failed call       *)
(* counts for nothing.                                                     *)
(***************************************************************************)
C9_OperatorCounts ==
    Kind = "operator" =>
        /\ \A km \in Pairs(data["operator"]) :
              /\ data["operator"].val[km[1]].val[km[2]].matches =
                     Cardinality(FoldedFor(km[1], km[2]))
              /\ data["operator"].val[km[1]].val[km[2]].kills = SumKills(FoldedFor(km[1], km[2]))
        /\ \A i \in 1..Len(calls) :
              ~calls[i].raised =>
                  <<KeyOf("operator", calls[i].line), MatchOf(calls[i].line)>>
                      \in Pairs(data["operator"])

\* two lines were folded for one (operator, match) pair and a call failed
\* on a four-field line
C9_Witness ==
    /\ Kind = "operator"
    /\ \E km \in Pairs(data["operator"]) :
          data["operator"].val[km[1]].val[km[2]].matches = 2
    /\ \E i \in 1..Len(calls) :
          calls[i].raised /\ Len(split(strip(calls[i].line))) = 4

TopN == IF Kind = "player" THEN config.TOP_N_PLAYERS ELSE config.TOP_N_OPERATOR_KILLS

\* a has a strictly higher score than b; a score is kills / matches, a
\* player's being its kills
Higher(a, b) == a.kills * b.matches > b.kills * a.matches
Before(a, b) == Higher(a, b) \/ (~Higher(b, a) /\ StrLess(a.match, b.match))

ItemsOf(kind, match_data) ==
    {[match |-> m,
      kills |-> IF kind = "player" THEN match_data.val[m] ELSE match_data.val[m].kills,
      matches |-> IF kind = "player" THEN 1 ELSE match_data.val[m].matches] :
        m \in DOMAIN match_data.val}

Ranked(kind, d, r) ==
    /\ ~r.raised
    /\ Len(r.ranked) = Cardinality(DOMAIN d.val)
    /\ \A k \in DOMAIN d.val : \E i \in 1..Len(r.ranked) : r.ranked[i].key = k
    /\ \A i \in 1..Len(r.ranked) :
          LET listed == r.ranked[i].sorted_matches
              items == ItemsOf(kind, d.val[r.ranked[i].key])
          IN  /\ Len(listed) = Min(TopN, Cardinality(items))
              /\ \A j \in 1..Len(listed) : listed[j] \in items
              /\ \A j \in 1..(Len(listed) - 1) : Before(listed[j], listed[j + 1])
              /\ \A x \in items \ {listed[j] : j \in 1..Len(listed)} :
                    Before(listed[Len(listed)], x)

ReportIsCurrent == last_reported[Kind] = [invoked |-> TRUE, data |-> data[Kind]]

(***************************************************************************)
(* C5: generate_report lists, for each key, the first min(top_n, m) of     *)
(* the key's m matches in the order of descending score, ties by           *)
(* ascending match_id; invoked again on the unchanged aggregator it        *)
(* writes the same text and leaves the stats map unchanged.                *)
(***************************************************************************)
C5_Original ==
    /\ [](ReportIsCurrent =>
             LET r == generate_report(Kind, data[Kind], config)
             IN  Ranked(Kind, data[Kind], r) /\ reports[Kind] = r.text)
    /\ [][(ReportIsCurrent /\ ~IsCall) =>
             (reports'[Kind] = reports[Kind] /\ data'[Kind] = data[Kind])]_vars

====
